---- MODULE Spec2Model ----
(***************************************************************************)
(* A model of notion-startpage: the article selection of                   *)
(* components/rss.py (fetch_articles_from_feeds, fetch_feed) and the       *)
(* recursive block persister of utils/blocks.py (append_block_to_page).    *)
(*                                                                         *)
(* Python dicts are functions from keys to values, lists are sequences,    *)
(* object identity of an Article is its link (the inputs give every entry  *)
(* a link of its own).  A datetime is a record [day, tick]; strings that   *)
(* are case-converted are sequences of one-character strings.              *)
(***************************************************************************)
EXTENDS Integers, Sequences, FiniteSets, TLC

VARIABLES
    \* ---- rss.py ----
    now,                \* module-level snapshot, rss.py:20
    clock,              \* the local time at which the run under way started
    run_no,             \* the runs this process has begun, this one included
    feeds,              \* argument of fetch_feed: list of Feed
    feed_entries,       \* what feedparser.parse(feed.url).entries yields, per feed
    banned_tags,        \* argument of fetch_feed
    max_articles,       \* argument of fetch_feed
    pcF,                \* position inside fetch_feed
    articles,           \* local of fetch_feed
    idx,                \* position of the for loop of rss.py:175
    selected_articles,  \* local of fetch_feed
    feed_count,         \* local of fetch_feed
    blocks,             \* return value of fetch_feed
    \* ---- blocks.py ----
    page_id,            \* argument of the top call of append_block_to_page
    block,              \* argument of the top call of append_block_to_page
    after,              \* argument of the top call of append_block_to_page
    stack,              \* the chain of active append_block_to_page coroutines
    inflight,           \* requests sent to the store and not yet answered
    append_calls,       \* every notion.blocks.children.append call, in issue order
    append_results,     \* the id each answered append call returned, in order
    store_children,     \* the store: container id -> ids of its children, in order
    store_content,      \* the store: id -> the block stored there
    next_id,            \* the store's id counter
    outcome,            \* how the top call ended
    retval,             \* what the top call returned
    \* ---- startpage.py ----
    environ,            \* os.environ: setting name -> value
    pcM,                \* position inside main
    main_error,         \* the exception main raised
    task_state,         \* the state of each task asyncio.gather started
    results,            \* what each finished task returned
    upstream_failed,    \* whether a call a task made to its upstream failed
    finished,           \* the tasks in the order they completed
    gather_exc,         \* the exception set on the future of asyncio.gather
    update_calls,       \* every notion.blocks.update call, in issue order
    cal_answers,        \* what each calendar answered to the search of the run
    result_py,          \* the Python type of what each finished task returned
    lambda_outcome      \* how lambda_handler ended

varsF == <<now, clock, run_no, feeds, feed_entries, banned_tags, max_articles, pcF, articles,
           idx, selected_articles, feed_count, blocks>>
varsP == <<page_id, block, after, stack, inflight, append_calls, append_results,
           store_children, store_content, next_id, outcome, retval>>
varsM == <<environ, pcM, main_error, task_state, results, upstream_failed,
           finished, gather_exc, update_calls, cal_answers, result_py,
           lambda_outcome>>
vars == <<now, clock, run_no, feeds, feed_entries, banned_tags, max_articles, pcF, articles,
          idx, selected_articles, feed_count, blocks,
          page_id, block, after, stack, inflight, append_calls, append_results,
          store_children, store_content, next_id, outcome, retval,
          environ, pcM, main_error, task_state, results, upstream_failed,
          finished, gather_exc, update_calls, cal_answers, result_py,
          lambda_outcome>>

\* Python's None where an identifier or a block may stand.
None == <<"None">>

\* main is not running.
IdleMain ==
    /\ environ = <<>>
    /\ pcM = "idle"
    /\ main_error = None
    /\ task_state = <<>>
    /\ results = <<>>
    /\ upstream_failed = <<>>
    /\ finished = <<>>
    /\ gather_exc = None
    /\ update_calls = <<>>
    /\ cal_answers = <<>>
    /\ result_py = <<>>
    /\ lambda_outcome = [state |-> "idle", statusCode |-> 0]

(***************************************************************************)
(* Bounds of the model.                                                    *)
(***************************************************************************)
\* Entries over all feeds of one fetch_feed call (ranking inputs).
MaxEntries == 3
\* Largest max_articles tried.
MaxMaxArticles == 3
\* Entries of one fetch_feed call when the tags vary.
MaxTagEntries == 1
\* Tags of one entry.
MaxTags == 2
\* Nodes of a block tree.
MaxNodes == 5

(***************************************************************************)
(* rss.py: time, tags                                                      *)
(***************************************************************************)

\* datetime comparison: (day, tick) lexicographic.
TimeLess(a, b) ==
    a.day < b.day \/ (a.day = b.day /\ a.tick < b.tick)

\* rss.py:21  now.replace(hour=0, minute=0, second=0, microsecond=0)
start_of_the_day == [day |-> now.day, tick |-> 0]

\* str.lower() on the letters the inputs use.
LowerChar(c) ==
    CASE c = "A" -> "a"
      [] c = "D" -> "d"
      [] c = "T" -> "t"
      [] OTHER -> c

Lower(s) == [i \in DOMAIN s |-> LowerChar(s[i])]

\* Python values whose type the code tests: None, a str, a struct_time.
PyNone == [py |-> "None"]
PyStr(chars) == [py |-> "str", chars |-> chars]
StructTime(d, t) == [py |-> "struct_time", day |-> d, tick |-> t]

\* x or "": None and the empty string are falsy.
OrEmpty(x) == IF x.py = "str" THEN x.chars ELSE <<>>

\* TagTerm without the call of lower().
TagTerm_NoLower(tag) ==
    OrEmpty(IF "term" \in DOMAIN tag THEN tag["term"] ELSE PyStr(<<>>))

\* rss.py:110  str(tag.get("term", "") or "").lower(): a tag is a dict that may
\* hold no "term", or a None term; both read as the empty string.
TagTerm(tag) ==
    Lower(OrEmpty(IF "term" \in DOMAIN tag THEN tag["term"] ELSE PyStr(<<>>)))

\* rss.py:108-113  the set of an entry's lowered tag terms.
EntryTags(entry) == { TagTerm(tag) : tag \in entry.tags }

\* rss.py:66-81  get_published_datetime: a struct_time is converted to a
\* datetime, anything else (a missing field, None, a string) gives the
\* module's now.
get_published_datetime(entry) ==
    LET published_parsed ==
            IF "published_parsed" \in DOMAIN entry
            THEN entry["published_parsed"] ELSE PyNone
    IN  IF published_parsed.py = "struct_time"
        THEN [day |-> published_parsed.day, tick |-> published_parsed.tick]
        ELSE now

\* rss.py:105-115  whether an entry survives both filters.
EntryKept(entry, banned) ==
    /\ ~ TimeLess(get_published_datetime(entry), start_of_the_day)
    /\ banned \cap EntryTags(entry) = {}

\* rss.py:130-140  the Article built from an entry.
MakeArticle(feed, entry) ==
    [ feed      |-> feed,
      title     |-> entry.title,
      link      |-> entry.link,
      published |-> get_published_datetime(entry),
      tags      |-> EntryTags(entry),
      priority  |-> feed.priority ]

\* rss.py:103-142  the inner loop over one feed's entries.
RECURSIVE ArticlesOfEntries(_, _, _)
ArticlesOfEntries(feed, entries, banned) ==
    IF entries = <<>> THEN <<>>
    ELSE LET rest == ArticlesOfEntries(feed, Tail(entries), banned)
         IN  IF EntryKept(Head(entries), banned)
             THEN <<MakeArticle(feed, Head(entries))>> \o rest
             ELSE rest

\* rss.py:84-144  fetch_articles_from_feeds: feeds in order, entries in order.
RECURSIVE ArticlesFrom(_, _, _, _)
ArticlesFrom(i, fs, ents, banned) ==
    IF i > Len(fs) THEN <<>>
    ELSE ArticlesOfEntries(fs[i], ents[i], banned)
         \o ArticlesFrom(i + 1, fs, ents, banned)

fetch_articles_from_feeds(fs, ents, banned) == ArticlesFrom(1, fs, ents, banned)

(***************************************************************************)
(* rss.py: ranking                                                         *)
(***************************************************************************)

\* KeyLess with the key x.priority alone.
KeyLess_PriorityOnly(a, b) == a.priority < b.priority

\* Alphabetical order of the titles the inputs use.
TitleLess(s, t) == s = "x" /\ t = "y"

\* KeyLess with the title as a third component of the key.
KeyLess_ThenTitle(a, b) ==
    \/ a.priority < b.priority
    \/ a.priority = b.priority /\ TimeLess(a.published, b.published)
    \/ a.priority = b.priority /\ a.published = b.published
       /\ TitleLess(a.title, b.title)

\* rss.py:169  the sort key (x.priority, x.published), compared as a tuple.
KeyLess(a, b) ==
    \/ a.priority < b.priority
    \/ a.priority = b.priority /\ TimeLess(a.published, b.published)

\* list.sort is stable: an element goes after every element that is not
\* greater than it.
RECURSIVE InsertStable(_, _)
InsertStable(s, x) ==
    IF s = <<>> THEN <<x>>
    ELSE IF KeyLess(x, s[Len(s)])
         THEN Append(InsertStable(SubSeq(s, 1, Len(s) - 1), x), s[Len(s)])
         ELSE Append(s, x)

RECURSIVE SortFrom(_, _)
SortFrom(done, rest) ==
    IF rest = <<>> THEN done
    ELSE SortFrom(InsertStable(done, Head(rest)), Tail(rest))

\* rss.py:169  articles.sort(key=...)
SortArticles(s) == SortFrom(<<>>, s)

(***************************************************************************)
(* rss.py: selection                                                       *)
(***************************************************************************)

\* dict.get(feed_name, 0)
CountGet(fc, name) == IF name \in DOMAIN fc THEN fc[name] ELSE 0

\* feed_count[feed_name] = n
CountSet(fc, name, n) ==
    [k \in DOMAIN fc \cup {name} |-> IF k = name THEN n ELSE fc[k]]

\* Admits with the bound one too high.
Admits_Three(fc, name) == CountGet(fc, name) < 3

\* Admits with a cap of one article per feed.
Admits_One(fc, name) == CountGet(fc, name) < 1

\* rss.py:178  if feed_count.get(feed_name, 0) < 2
Admits(fc, name) == CountGet(fc, name) < 2

\* Breaks that stops one article short of max_articles.
Breaks_OneShort(sel, max) == Len(sel) = max - 1

\* CountKey that tells feeds apart by their url.
CountKey_Url(article) == article.feed.url

\* rss.py:176  feed_name = article.feed.name, the key of feed_count.
CountKey(article) == article.feed.name

\* rss.py:182  if len(selected_articles) == max_articles: break
Breaks(sel, max) == Len(sel) = max

\* rss.py:185-190  the heading block.
HeadingBlock(header) == [type |-> "heading_2", content |-> header]

\* rss.py:193-207  the list item of one selected article.
ItemBlock(article) ==
    [ type    |-> "bulleted_list_item",
      content |-> <<article.feed.name, article.title>>,
      link    |-> article.link ]

\* rss.py:185-209
RenderBlocks(header, sel) ==
    <<HeadingBlock(header)>> \o [i \in 1..Len(sel) |-> ItemBlock(sel[i])]

(***************************************************************************)
(* rss.py: fetch_feed, step by step                                        *)
(***************************************************************************)

\* rss.py:167  articles = fetch_articles_from_feeds(feeds, banned_tags)
FetchArticles ==
    /\ pcF = "fetch"
    /\ articles' = fetch_articles_from_feeds(feeds, feed_entries, banned_tags)
    /\ pcF' = "sort"
    /\ UNCHANGED <<now, clock, run_no, feeds, feed_entries, banned_tags,
                   max_articles, idx,
                   selected_articles, feed_count, blocks>>
    /\ UNCHANGED varsP
    /\ UNCHANGED varsM

\* rss.py:169-173  the in-place sort, then the empty selection.
SortStep ==
    /\ pcF = "sort"
    /\ articles' = SortArticles(articles)
    /\ selected_articles' = <<>>
    /\ feed_count' = <<>>
    /\ idx' = 1
    /\ pcF' = "select"
    /\ UNCHANGED <<now, clock, run_no, feeds, feed_entries, banned_tags,
                   max_articles, blocks>>
    /\ UNCHANGED varsP
    /\ UNCHANGED varsM

\* rss.py:175-183  one iteration of the for loop.
SelectStep ==
    /\ pcF = "select"
    /\ idx <= Len(articles)
    /\ LET article == articles[idx]
           feed_name == CountKey(article)
       IN  IF Admits(feed_count, feed_name)
           THEN /\ selected_articles' = Append(selected_articles, article)
                /\ feed_count' =
                       CountSet(feed_count, feed_name,
                                CountGet(feed_count, feed_name) + 1)
                /\ IF Breaks(selected_articles', max_articles)
                   THEN pcF' = "render" /\ idx' = idx
                   ELSE pcF' = "select" /\ idx' = idx + 1
           ELSE /\ idx' = idx + 1
                /\ UNCHANGED <<selected_articles, feed_count, pcF>>
    /\ UNCHANGED <<now, clock, run_no, feeds, feed_entries, banned_tags,
                   max_articles,
                   articles, blocks>>
    /\ UNCHANGED varsP
    /\ UNCHANGED varsM

\* rss.py:175  the for loop runs out of articles.
SelectExhausted ==
    /\ pcF = "select"
    /\ idx > Len(articles)
    /\ pcF' = "render"
    /\ UNCHANGED <<now, clock, run_no, feeds, feed_entries, banned_tags,
                   max_articles,
                   articles, idx, selected_articles, feed_count, blocks>>
    /\ UNCHANGED varsP
    /\ UNCHANGED varsM

\* rss.py:185-209  build the blocks and return them.
Render ==
    /\ pcF = "render"
    /\ blocks' = RenderBlocks("Tech News", selected_articles)
    /\ pcF' = "done"
    /\ UNCHANGED <<now, clock, run_no, feeds, feed_entries, banned_tags,
                   max_articles,
                   articles, idx, selected_articles, feed_count>>
    /\ UNCHANGED varsP
    /\ UNCHANGED varsM

(***************************************************************************)
(* rss.py: the inputs of a fetch_feed call                                 *)
(***************************************************************************)

\* The feed lists tried: two feeds, equal or different in name and priority.
FeedLists ==
    { << [name |-> n1, url |-> "u1", priority |-> p1],
         [name |-> n2, url |-> "u2", priority |-> p2] >> :
      n1 \in {"A", "B"}, p1 \in {1, 2}, n2 \in {"A", "B"}, p2 \in {1, 2} }

\* Entries that differ in what the ranking reads: title and publish time.
RankEntries ==
    { [title |-> t, published_parsed |-> StructTime(1, k), tags |-> {}] :
      t \in {"x", "y"}, k \in {0, 1} }

\* The tag dicts of an entry: a term in some letter case, a None term, no term.
TagDicts ==
    { [term |-> PyStr(<<"a", "d">>)], [term |-> PyStr(<<"A", "d">>)],
      [term |-> PyStr(<<"A", "D">>)], [term |-> PyStr(<<"t">>)],
      [term |-> PyNone], [scheme |-> PyNone] }

\* Entries that differ in what the filters read: tags and publish day.
TagEntries ==
    { [title |-> "x", published_parsed |-> StructTime(d, 1), tags |-> ts] :
      d \in {0, 1},
      ts \in { x \in SUBSET TagDicts : Cardinality(x) <= MaxTags } }

\* The banned tags tried: lowercase, uppercase and the empty string.
BannedUniverse == { <<"a", "d">>, <<"A", "D">>, <<>> }

\* The entries of a feed, each with a link of its own; the links of the
\* whole input (total entries) run against its order.
WithLinks(raw, offset, total) ==
    [i \in DOMAIN raw |->
        [k \in DOMAIN raw[i] \cup {"link"} |->
            IF k = "link" THEN total + 1 - (offset + i) ELSE raw[i][k]]]

IdlePersist ==
    /\ page_id = None
    /\ block = None
    /\ after = None
    /\ stack = <<>>
    /\ inflight = 0
    /\ append_calls = <<>>
    /\ append_results = <<>>
    /\ store_children = <<>>
    /\ store_content = <<>>
    /\ next_id = 0
    /\ outcome = "idle"
    /\ retval = None

FeedLocalsInit ==
    /\ pcF = "fetch"
    /\ articles = <<>>
    /\ idx = 0
    /\ selected_articles = <<>>
    /\ feed_count = <<>>
    /\ blocks = <<>>

\* fetch_feed called on entries that vary in feed, title and publish time.
InitFeed ==
    /\ now = [day |-> 1, tick |-> 1]
    /\ clock = now
    /\ run_no = 1
    /\ feeds \in FeedLists
    /\ \E n1 \in 0..MaxEntries :
         \E n2 \in 0..(MaxEntries - n1) :
           \E raw1 \in [1..n1 -> RankEntries] :
             \E raw2 \in [1..n2 -> RankEntries] :
               feed_entries = <<WithLinks(raw1, 0, n1 + n2),
                                WithLinks(raw2, n1, n1 + n2)>>
    /\ banned_tags = { <<"a", "d">> }
    /\ max_articles \in 0..MaxMaxArticles
    /\ FeedLocalsInit
    /\ IdlePersist
    /\ IdleMain

\* fetch_feed called on entries that vary in tags and publish day, with
\* banned tags of either letter case.
InitTags ==
    /\ now = [day |-> 1, tick |-> 1]
    /\ clock = now
    /\ run_no = 1
    /\ feeds = << [name |-> "A", url |-> "u1", priority |-> 1],
                  [name |-> "B", url |-> "u2", priority |-> 1] >>
    /\ \E n1 \in 0..MaxTagEntries :
         \E raw1 \in [1..n1 -> TagEntries] :
           feed_entries = <<WithLinks(raw1, 0, n1), <<>> >>
    /\ banned_tags \in SUBSET BannedUniverse
    /\ max_articles = 5
    /\ FeedLocalsInit
    /\ IdlePersist
    /\ IdleMain

NextFeed == FetchArticles \/ SortStep \/ SelectStep \/ SelectExhausted \/ Render

SpecFeed == InitFeed /\ [][NextFeed]_vars

SpecTags == InitTags /\ [][NextFeed]_vars

(***************************************************************************)
(* Properties of fetch_feed                                                *)
(***************************************************************************)

\* The articles fetch_feed rendered, in the order of its list items: the
\* item's link names the article.
ArticleOfLink(l) ==
    CHOOSE a \in { articles[i] : i \in DOMAIN articles } : a.link = l

Rendered == [i \in 1..(Len(blocks) - 1) |-> ArticleOfLink(blocks[i + 1].link)]

\* The place of an article in the list fetch_articles_from_feeds returned,
\* before the sort.
InputPos(a) ==
    LET fetched == fetch_articles_from_feeds(feeds, feed_entries, banned_tags)
    IN  CHOOSE i \in DOMAIN fetched : fetched[i].link = a.link

\* The list items of the output that come from the feed called name.
ItemsFrom(name) ==
    { i \in 2..Len(blocks) : blocks[i].content[1] = name }

\* The fetched articles that come from the feed called name.
FetchedFrom(name) ==
    { i \in DOMAIN articles : articles[i].feed.name = name }

FeedNames == { feeds[i].name : i \in DOMAIN feeds }

\* C1: the number of articles fetch_feed selects never exceeds max_articles,
\* for every max_articles >= 0; in particular with max_articles = 0 nothing
\* is selected and the output is the heading alone.
C1_TotalNeverExceedsMax ==
    /\ Len(selected_articles) <= max_articles
    /\ pcF = "done" => Len(blocks) - 1 <= max_articles

\* C2: at no point of the selection, and in the output, does any one feed
\* have more than two selected articles.
C2_PerFeedCap ==
    /\ \A name \in FeedNames :
         Cardinality({ i \in DOMAIN selected_articles :
                         selected_articles[i].feed.name = name }) <= 2
    /\ pcF = "done" =>
         \A name \in FeedNames : Cardinality(ItemsFrom(name)) <= 2

\* C2's case: a feed that contributed three articles has exactly two items.
C2_Witness ==
    /\ pcF = "done"
    /\ \E name \in FeedNames :
         /\ Cardinality(FetchedFrom(name)) >= 3
         /\ Cardinality(ItemsFrom(name)) = 2

\* C3: in the output an article rendered before another has a feed priority
\* that is not larger, and with equal priorities a publish time that is not
\* later.
C3_PriorityThenTime ==
    pcF = "done" =>
      \A i, j \in DOMAIN Rendered :
        i < j =>
          /\ Rendered[i].feed.priority <= Rendered[j].feed.priority
          /\ Rendered[i].feed.priority = Rendered[j].feed.priority
               => ~ TimeLess(Rendered[j].published, Rendered[i].published)

\* C3's case: the input held a lower-priority article before a
\* higher-priority one and a later article before an earlier one of the same
\* priority, and all of them were rendered.
C3_Witness ==
    /\ pcF = "done"
    /\ Len(Rendered) = 3
    /\ \E a, b, c \in DOMAIN Rendered :
         /\ Rendered[a].priority > Rendered[b].priority
         /\ InputPos(Rendered[a]) < InputPos(Rendered[b])
         /\ Rendered[c].priority = Rendered[b].priority
         /\ TimeLess(Rendered[c].published, Rendered[b].published)
         /\ InputPos(Rendered[b]) < InputPos(Rendered[c])

\* C4 as claimed: no fetched or selected article has a tag equal to a banned
\* tag when both are compared without regard to letter case.
C4_NoBannedTagAnyCase ==
    \A i \in DOMAIN articles :
      \A t \in articles[i].tags :
        \A b \in banned_tags : Lower(t) # Lower(b)

\* C4, amended: no fetched or selected article has a tag equal, without
\* regard to the tag's letter case, to a banned tag that is itself lowercase.
C4_NoLowercaseBannedTag ==
    /\ \A i \in DOMAIN articles :
         \A t \in articles[i].tags :
           \A b \in banned_tags : b = Lower(b) => Lower(t) # b
    /\ \A i \in DOMAIN selected_articles :
         \A t \in selected_articles[i].tags :
           \A b \in banned_tags : b = Lower(b) => Lower(t) # b

\* C4's case: an entry of today tagged "AD" met the banned tag "ad" and was
\* left out of the fetched articles.
C4_Witness ==
    /\ pcF = "done"
    /\ <<"a", "d">> \in banned_tags
    /\ \E i \in DOMAIN feed_entries[1] :
         /\ [term |-> PyStr(<<"A", "D">>)] \in feed_entries[1][i].tags
         /\ feed_entries[1][i].published_parsed = StructTime(1, 1)
         /\ \A k \in DOMAIN articles : articles[k].link # feed_entries[1][i].link

\* C5: two rendered articles of equal priority and equal publish time keep
\* the relative order they had in the fetched list, whatever their titles,
\* links and feed names.
C5_Stable ==
    pcF = "done" =>
      \A i, j \in DOMAIN Rendered :
        ( /\ i < j
          /\ Rendered[i].priority = Rendered[j].priority
          /\ Rendered[i].published = Rendered[j].published )
        => InputPos(Rendered[i]) < InputPos(Rendered[j])

\* C5's case: two rendered articles tie in priority and time, and the
\* earlier one has the larger title, the larger link and the larger feed
\* name.
C5_Witness ==
    /\ pcF = "done"
    /\ \E i, j \in DOMAIN Rendered :
         /\ i < j
         /\ Rendered[i].priority = Rendered[j].priority
         /\ Rendered[i].published = Rendered[j].published
         /\ Rendered[i].feed.name = "B" /\ Rendered[j].feed.name = "A"
         /\ Rendered[j].link < Rendered[i].link
         /\ TitleLess(Rendered[j].title, Rendered[i].title)

(***************************************************************************)
(* Runs of fetch_feed in one process: the module is imported once, and      *)
(* every later invocation of lambda_handler runs main, and with it          *)
(* fetch_feed, with the module-level now and start_of_the_day of the        *)
(* import.                                                                  *)
(***************************************************************************)

\* Invocations one process serves.
MaxRuns == 2
\* Entries of the feed when the publish times vary.
MaxRunEntries == 2

\* What an entry can hold as published_parsed: a struct_time of yesterday,
\* of the day of the import or of the day after, at midnight or later; None;
\* a string.
PublishedValues ==
    { StructTime(d, t) : d \in 0..2, t \in {0, 1} }
        \cup {PyNone, PyStr(<<"t">>)}

\* Entries that differ in their publish time; the last has none.
TimeEntries ==
    { [title |-> "x", published_parsed |-> v, tags |-> {}] :
        v \in PublishedValues }
        \cup { [title |-> "x", tags |-> {}] }

\* The first run of a process: the module was imported just before.
InitRuns ==
    /\ now = [day |-> 1, tick |-> 1]
    /\ clock = now
    /\ run_no = 1
    /\ feeds = << [name |-> "A", url |-> "u1", priority |-> 1],
                  [name |-> "B", url |-> "u2", priority |-> 1] >>
    /\ \E n1 \in 0..MaxRunEntries :
         \E raw1 \in [1..n1 -> TimeEntries] :
           feed_entries = <<WithLinks(raw1, 0, n1), <<>> >>
    /\ banned_tags = { <<"a", "d">> }
    /\ max_articles = 5
    /\ FeedLocalsInit
    /\ IdlePersist
    /\ IdleMain

\* lambda_handler.py:15-31  the next invocation in the same process, on the
\* same day or on the next: main calls fetch_feed again; rss.py:19-21 ran at
\* the import and does not run again.
Reinvoke ==
    /\ pcF = "done"
    /\ run_no < MaxRuns
    /\ run_no' = run_no + 1
    /\ \E later \in {0, 1} :
         clock' = [day |-> clock.day + later, tick |-> clock.tick]
    /\ pcF' = "fetch"
    /\ articles' = <<>>
    /\ idx' = 0
    /\ selected_articles' = <<>>
    /\ feed_count' = <<>>
    /\ blocks' = <<>>
    /\ UNCHANGED <<now, feeds, feed_entries, banned_tags, max_articles>>
    /\ UNCHANGED varsP
    /\ UNCHANGED varsM

NextRuns == NextFeed \/ Reinvoke

SpecRuns == InitRuns /\ [][NextRuns]_vars

\* The start of the local day on which the run under way started.
StartOfRunDay == [day |-> clock.day, tick |-> 0]

\* The entries of every feed.
AllEntries ==
    UNION { { feed_entries[i][j] : j \in DOMAIN feed_entries[i] } :
              i \in DOMAIN feed_entries }

\* The entry holds a publish time that can be read.
HasPublishTime(e) ==
    /\ "published_parsed" \in DOMAIN e
    /\ e["published_parsed"].py = "struct_time"

\* The publish time of an entry that holds one.
PublishTime(e) ==
    [day |-> e["published_parsed"].day, tick |-> e["published_parsed"].tick]

\* The entry was made an article by fetch_articles_from_feeds.
Returned(e) == \E k \in DOMAIN articles : articles[k].link = e.link

\* C23: once fetch_articles_from_feeds has returned, no article it returned
\* was published before the start of the day of the run, and every entry
\* published at that instant or later is among the articles.
C23_ExactlyTodaysArticles ==
    pcF # "fetch" =>
        /\ \A k \in DOMAIN articles :
              ~TimeLess(articles[k].published, StartOfRunDay)
        /\ \A e \in AllEntries :
              (HasPublishTime(e) /\ ~TimeLess(PublishTime(e), StartOfRunDay))
                 => Returned(e)

\* C25: the cutoff a run filters with is the start of the local day on which
\* that run started, in the first run of a process and in every later one.
C25_CutoffIsStartOfRunDay ==
    pcF # "fetch" => start_of_the_day = StartOfRunDay

\* C27: an entry without a readable publish time is made an article whose
\* publish time is the time of the run, and the entries around it that are
\* of today are made articles too.
C27_FallbackIsTimeOfRun ==
    pcF # "fetch" =>
        \A e \in AllEntries :
           ~HasPublishTime(e) =>
              /\ \E k \in DOMAIN articles :
                    /\ articles[k].link = e.link
                    /\ articles[k].published = clock
              /\ \A other \in AllEntries :
                    (HasPublishTime(other)
                       /\ ~TimeLess(PublishTime(other), StartOfRunDay))
                       => Returned(other)

\* The input [feedA p1 t10, feedB p2 t5, feedA p1 t20]: feed A of priority 1
\* with an entry at tick 0 followed by one at tick 1, feed B of priority 2
\* with one entry, and room for all three.
C20_Scenario ==
    /\ feeds[1].name = "A" /\ feeds[1].priority = 1
    /\ feeds[2].name = "B" /\ feeds[2].priority = 2
    /\ Len(feed_entries[1]) = 2
    /\ feed_entries[1][1].published_parsed = StructTime(1, 0)
    /\ feed_entries[1][2].published_parsed = StructTime(1, 1)
    /\ Len(feed_entries[2]) = 1
    /\ max_articles = 3

\* The feed name and publish tick of every rendered article, in order.
RenderedNameTick ==
    [i \in DOMAIN Rendered |->
        <<Rendered[i].feed.name, Rendered[i].published.tick>>]

\* C20 as stated: the selection can be run with a per-feed cap of one, and
\* then admits at most one article per feed: the scenario input gives
\* [feedA@t10, feedB@t5].
C20_CapOfOneOnRequest ==
    (C20_Scenario /\ pcF = "done") =>
        /\ \A name \in FeedNames : Cardinality(ItemsFrom(name)) <= 1
        /\ Len(Rendered) = 2
        /\ RenderedNameTick[1] = <<"A", 0>>
        /\ RenderedNameTick[2][1] = "B"

\* C20: the per-feed cap is no parameter of fetch_feed, whose arguments are
\* header, feeds, banned_tags and max_articles; it is the number 2 in every
\* call: no feed has more than two items, and the scenario input gives
\* [feedA@t10, feedA@t20, feedB@t5].
C20_CapIsAlwaysTwo ==
    pcF = "done" =>
        /\ \A name \in FeedNames : Cardinality(ItemsFrom(name)) <= 2
        /\ C20_Scenario =>
             /\ Len(Rendered) = 3
             /\ RenderedNameTick[1] = <<"A", 0>>
             /\ RenderedNameTick[2] = <<"A", 1>>
             /\ RenderedNameTick[3][1] = "B"

\* The scenario input, selected and rendered.
C20_Witness ==
    /\ C20_Scenario
    /\ pcF = "done"
    /\ Cardinality(ItemsFrom("A")) = 2
    /\ Cardinality(ItemsFrom("B")) = 1

\* The place of a rendered article in the ranked list.
RankedPos(a) == CHOOSE k \in DOMAIN articles : articles[k].link = a.link

\* The ranked article at place k was rendered.
InOutput(k) == \E i \in DOMAIN Rendered : Rendered[i].link = articles[k].link

\* C26: in the output of fetch_feed an article of the ranked list is missing
\* only if two earlier-ranked articles of a feed of its name are in the
\* output, or max_articles earlier-ranked articles are; the output holds the
\* admitted articles, each once, in the order of the ranked list; the input
\* [feedA p1 t10, feedB p2 t5, feedA p1 t20] gives feed A, feed A, feed B.
C26_GreedyComplete ==
    pcF = "done" =>
        /\ \A k \in DOMAIN articles :
              ~InOutput(k) =>
                 \/ Cardinality({ j \in 1..(k - 1) :
                        /\ InOutput(j)
                        /\ articles[j].feed.name = articles[k].feed.name }) >= 2
                 \/ Cardinality({ j \in 1..(k - 1) : InOutput(j) })
                        >= max_articles
        /\ Len(Rendered) = Len(selected_articles)
        /\ \A i \in DOMAIN Rendered : Rendered[i].link = selected_articles[i].link
        /\ \A i, j \in DOMAIN Rendered :
              i < j => RankedPos(Rendered[i]) < RankedPos(Rendered[j])
        /\ C20_Scenario =>
              [i \in DOMAIN Rendered |-> RenderedNameTick[i][1]]
                 = <<"A", "A", "B">>

\* Three articles of feeds named A were ranked with room for three: two are
\* in the output and the third was left out by the cap.
C26_Witness ==
    /\ pcF = "done"
    /\ max_articles = 3
    /\ Len(articles) = 3
    /\ Len(Rendered) = 2
    /\ \A k \in DOMAIN articles : articles[k].feed.name = "A"

\* C30: feed_count is keyed by the feed name alone: two feeds of one name,
\* whatever their urls and priorities, have at most two articles in the
\* output together; and when the selection ran through the whole ranked list
\* a feed name has its two articles, or all it had, whatever the other
\* names reached.
C30_CounterKeyedByName ==
    pcF = "done" =>
        /\ feeds[1].name = feeds[2].name => Len(Rendered) <= 2
        /\ Len(Rendered) < max_articles =>
              \A name \in FeedNames :
                 Cardinality(ItemsFrom(name)) =
                    IF Cardinality(FetchedFrom(name)) >= 2 THEN 2
                    ELSE Cardinality(FetchedFrom(name))

\* Two feeds named A with different urls and priorities yielded three
\* articles, at least one each, and two were selected.
C30_Witness ==
    /\ pcF = "done"
    /\ feeds[1].name = "A" /\ feeds[2].name = "A"
    /\ feeds[1].url # feeds[2].url
    /\ feeds[1].priority # feeds[2].priority
    /\ feed_entries[1] # <<>> /\ feed_entries[2] # <<>>
    /\ Len(articles) = 3
    /\ Len(Rendered) = 2
    /\ max_articles = 3

(***************************************************************************)
(* blocks.py: blocks and the store                                         *)
(***************************************************************************)

\* The ascending sequence of a finite set of integers.
RECURSIVE SetToSeq(_)
SetToSeq(S) ==
    IF S = {} THEN <<>>
    ELSE LET m == CHOOSE x \in S : \A y \in S : x <= y
         IN  <<m>> \o SetToSeq(S \ {m})

\* The shapes of a tree of n nodes: the parent of every node but node 1.
ParentVectors(n) ==
    { p \in [2..n -> 1..(n - 1)] : \A i \in 2..n : p[i] < i }

\* The block dict of node k: keys "type" and "text", and "children" when
\* the node has children or is one of the leaves given an empty list.
RECURSIVE BuildBlock(_, _, _, _)
BuildBlock(p, n, k, keyed) ==
    LET kids == SetToSeq({ i \in 2..n : p[i] = k })
        keys == IF kids # <<>> \/ k \in keyed
                THEN {"type", "text", "children"} ELSE {"type", "text"}
    IN  [ key \in keys |->
            CASE key = "type" -> "block"
              [] key = "text" -> k
              [] key = "children" ->
                    [i \in DOMAIN kids |-> BuildBlock(p, n, kids[i], keyed)] ]

\* The identifiers of the target page, of the block the new section goes
\* after, of the block that follows it, and of the k-th node the store makes.
PageId == <<"page">>
AnchorId == <<"anchor">>
TailId == <<"tail">>
NewId(k) == <<"blk", k>>

\* ChildrenBlocks that keeps the first child only.
ChildrenBlocks_FirstOnly(b) ==
    IF "children" \in DOMAIN b /\ b["children"] # <<>>
    THEN <<b["children"][1]>> ELSE <<>>

\* blocks.py:21  block.get("children", [])
ChildrenBlocks(b) == IF "children" \in DOMAIN b THEN b["children"] ELSE <<>>

\* ParentBlock that sends the block as it is, children included.
ParentBlock_Whole(b) == b

\* blocks.py:20  {k: v for k, v in block.items() if k != "children"}
ParentBlock(b) == [k \in DOMAIN b \ {"children"} |-> b[k]]

\* blocks.py:24-26  the keyword arguments of the append call.
Kwargs(parent_block, aft) ==
    IF aft # None
    THEN [children |-> <<parent_block>>, after |-> aft]
    ELSE [children |-> <<parent_block>>]

\* ChildContainer that reuses the container of the parent.
ChildContainer_SamePage(frame) == frame.page_id

\* blocks.py:35  the container of a child's call: parent_id.
ChildContainer(frame) == frame.parent_id

\* ChildAfter that hands the parent's after on to the child.
ChildAfter_Inherited(frame) == frame.after

\* blocks.py:35  after=None
ChildAfter(frame) == None

\* ChildAt that walks the children from the last to the first.
ChildAt_Reversed(children_blocks, i) ==
    children_blocks[Len(children_blocks) + 1 - i]

\* blocks.py:34  the i-th iteration's child_block.
ChildAt(children_blocks, i) == children_blocks[i]

\* ReturnValue of a function that ends with return parent_id.
ReturnValue_ParentId(frame) == frame.parent_id

\* blocks.py:8-35  the function has no return statement.
ReturnValue(frame) == None

\* blocks.py:8  a call of append_block_to_page about to run.
NewFrame(pid, b, aft) ==
    [ page_id |-> pid, block |-> b, after |-> aft, pc |-> "start",
      parent_block |-> None, children_blocks |-> <<>>, parent_id |-> None,
      i |-> 0 ]

\* The store puts id right after the sibling aft, or last when aft is None.
InsertChild(kids, id, aft) ==
    IF aft = None THEN Append(kids, id)
    ELSE LET j == CHOOSE j \in DOMAIN kids : kids[j] = aft
         IN  SubSeq(kids, 1, j) \o <<id>> \o SubSeq(kids, j + 1, Len(kids))

\* Whether the store can serve a request: the container exists and the
\* sibling named by after is one of its children.
Servable(call) ==
    /\ call.page_id \in DOMAIN store_children
    /\ "after" \in DOMAIN call.kwargs =>
         \E j \in DOMAIN store_children[call.page_id] :
            store_children[call.page_id][j] = call.kwargs["after"]

\* Unwind of a loop that catches the error of a child and goes on with the
\* next sibling.
Unwind_CaughtInLoop(stk) ==
    IF Len(stk) = 1 THEN <<>>
    ELSE LET below == stk[Len(stk) - 1]
         IN  Append(SubSeq(stk, 1, Len(stk) - 2),
                    [below EXCEPT !.i = below.i + 1])

\* blocks.py:27-35  neither the await of the append call nor the await of a
\* recursive call stands in a try: the error leaves every active call.
Unwind(stk) == <<>>

Top == stack[Len(stack)]

SetTop(frame) == [stack EXCEPT ![Len(stack)] = frame]

(***************************************************************************)
(* blocks.py: append_block_to_page, step by step                           *)
(***************************************************************************)

\* blocks.py:19-27  split the block and send the append request.
IssueAppend ==
    /\ stack # <<>>
    /\ Top.pc = "start"
    /\ LET parent_block == ParentBlock(Top.block)
           children_blocks == ChildrenBlocks(Top.block)
           kwargs == Kwargs(parent_block, Top.after)
       IN  /\ append_calls' =
                 Append(append_calls, [page_id |-> Top.page_id, kwargs |-> kwargs])
           /\ stack' = SetTop([Top EXCEPT !.pc = "await",
                                          !.parent_block = parent_block,
                                          !.children_blocks = children_blocks])
    /\ inflight' = inflight + 1
    /\ UNCHANGED <<page_id, block, after, append_results, store_children,
                   store_content, next_id, outcome, retval>>
    /\ UNCHANGED varsF
    /\ UNCHANGED varsM

\* blocks.py:27-28  the store creates the node and answers with its id.
StoreAppendOk ==
    /\ stack # <<>>
    /\ Top.pc = "await"
    /\ LET call == append_calls[Len(append_calls)]
           id == NewId(next_id + 1)
           aft == IF "after" \in DOMAIN call.kwargs
                  THEN call.kwargs["after"] ELSE None
       IN  /\ Servable(call)
           /\ store_children' =
                 [c \in DOMAIN store_children \cup {id} |->
                    IF c = id THEN <<>>
                    ELSE IF c = call.page_id
                    THEN InsertChild(store_children[c], id, aft)
                    ELSE store_children[c]]
           /\ store_content' =
                 [c \in DOMAIN store_content \cup {id} |->
                    IF c = id THEN call.kwargs["children"][1]
                    ELSE store_content[c]]
           /\ append_results' = Append(append_results, id)
           /\ stack' = SetTop([Top EXCEPT !.pc = "loop", !.parent_id = id,
                                          !.i = 1])
    /\ next_id' = next_id + 1
    /\ inflight' = inflight - 1
    /\ UNCHANGED <<page_id, block, after, append_calls, outcome, retval>>
    /\ UNCHANGED varsF
    /\ UNCHANGED varsM

\* blocks.py:27  the append call raises; nothing catches it, so every active
\* call of append_block_to_page ends with the error.
StoreAppendFail ==
    /\ stack # <<>>
    /\ Top.pc = "await"
    /\ stack' = Unwind(stack)
    /\ inflight' = inflight - 1
    /\ outcome' = "raised"
    /\ UNCHANGED <<page_id, block, after, append_calls, append_results,
                   store_children, store_content, next_id, retval>>
    /\ UNCHANGED varsF
    /\ UNCHANGED varsM

\* blocks.py:31-35  the next child: a recursive call.
RecurseChild ==
    /\ stack # <<>>
    /\ Top.pc = "loop"
    /\ Top.i <= Len(Top.children_blocks)
    /\ stack' = Append(stack,
                       NewFrame(ChildContainer(Top),
                                ChildAt(Top.children_blocks, Top.i),
                                ChildAfter(Top)))
    /\ UNCHANGED <<page_id, block, after, inflight, append_calls,
                   append_results, store_children, store_content, next_id,
                   outcome, retval>>
    /\ UNCHANGED varsF
    /\ UNCHANGED varsM

\* blocks.py:31-35  no child is left: the call returns, to the loop of its
\* caller or to the caller of the top call.
ReturnCall ==
    /\ stack # <<>>
    /\ Top.pc = "loop"
    /\ Top.i > Len(Top.children_blocks)
    /\ IF Len(stack) = 1
       THEN /\ stack' = <<>>
            /\ outcome' = "returned"
            /\ retval' = ReturnValue(Top)
       ELSE /\ stack' =
                 LET below == stack[Len(stack) - 1]
                 IN  Append(SubSeq(stack, 1, Len(stack) - 2),
                            [below EXCEPT !.i = below.i + 1])
            /\ UNCHANGED <<outcome, retval>>
    /\ UNCHANGED <<page_id, block, after, inflight, append_calls,
                   append_results, store_children, store_content, next_id>>
    /\ UNCHANGED varsF
    /\ UNCHANGED varsM

IdleFeed ==
    /\ now = [day |-> 1, tick |-> 1]
    /\ clock = now
    /\ run_no = 0
    /\ feeds = <<>>
    /\ feed_entries = <<>>
    /\ banned_tags = {}
    /\ max_articles = 0
    /\ pcF = "idle"
    /\ articles = <<>>
    /\ idx = 0
    /\ selected_articles = <<>>
    /\ feed_count = <<>>
    /\ blocks = <<>>

\* append_block_to_page called on a page that holds the anchor block and one
\* block after it, with every block tree of up to MaxNodes nodes.
InitPersist ==
    /\ page_id = PageId
    /\ \E n \in 1..MaxNodes :
         \E p \in ParentVectors(n) :
           \E keyed \in SUBSET { k \in 1..n : \A i \in 2..n : p[i] # k } :
             block = BuildBlock(p, n, 1, keyed)
    /\ after \in {None, AnchorId}
    /\ stack = <<NewFrame(page_id, block, after)>>
    /\ inflight = 0
    /\ append_calls = <<>>
    /\ append_results = <<>>
    /\ store_children = [c \in {PageId} |-> <<AnchorId, TailId>>]
    /\ store_content = <<>>
    /\ next_id = 0
    /\ outcome = "running"
    /\ retval = None
    /\ IdleFeed
    /\ IdleMain

NextPersist ==
    IssueAppend \/ StoreAppendOk \/ StoreAppendFail \/ RecurseChild \/ ReturnCall

SpecPersist == InitPersist /\ [][NextPersist]_vars

(***************************************************************************)
(* Properties of append_block_to_page                                      *)
(***************************************************************************)

\* The children list of a block of the input tree, empty when it has none.
KidsOfBlock(b) == IF "children" \in DOMAIN b THEN b["children"] ELSE <<>>

\* A block without its children.
Bare(b) == [k \in DOMAIN b \ {"children"} |-> b[k]]

\* The number of nodes of a block tree.
RECURSIVE NodeCount(_)
RECURSIVE NodeCountOfSeq(_)
NodeCount(b) == 1 + NodeCountOfSeq(KidsOfBlock(b))
NodeCountOfSeq(bs) ==
    IF bs = <<>> THEN 0 ELSE NodeCount(Head(bs)) + NodeCountOfSeq(Tail(bs))

\* The nodes of a block tree in pre-order, depth first, left to right, each
\* without its children.
RECURSIVE Preorder(_)
RECURSIVE PreorderOfSeq(_)
Preorder(b) == <<Bare(b)>> \o PreorderOfSeq(KidsOfBlock(b))
PreorderOfSeq(bs) ==
    IF bs = <<>> THEN <<>> ELSE Preorder(Head(bs)) \o PreorderOfSeq(Tail(bs))

\* A block tree with the "children" key on exactly the nodes that have
\* children: the shape, order and content of the tree.
RECURSIVE Shape(_)
Shape(b) ==
    LET kids == KidsOfBlock(b)
    IN  IF kids = <<>> THEN Bare(b)
        ELSE [ k \in DOMAIN Bare(b) \cup {"children"} |->
                 IF k = "children"
                 THEN [i \in DOMAIN kids |-> Shape(kids[i])]
                 ELSE b[k] ]

\* The tree the store holds under the node id, read back from the store.
RECURSIVE ReadBack(_)
ReadBack(id) ==
    LET kids == store_children[id]
        content == store_content[id]
    IN  IF kids = <<>> THEN content
        ELSE [ k \in DOMAIN content \cup {"children"} |->
                 IF k = "children"
                 THEN [i \in DOMAIN kids |-> ReadBack(kids[i])]
                 ELSE content[k] ]

\* The nodes of a block tree, as a set.
RECURSIVE SubBlocks(_)
SubBlocks(b) ==
    {b} \cup UNION { SubBlocks(KidsOfBlock(b)[i]) : i \in DOMAIN KidsOfBlock(b) }

\* The block an append call carries (the first of its batch).
Sent(k) == append_calls[k].kwargs["children"][1]

\* The nodes of the input tree that have a grandchild.
HasGrandchild(b) ==
    \E i \in DOMAIN KidsOfBlock(b) : KidsOfBlock(KidsOfBlock(b)[i]) # <<>>

\* C6: a call of append_block_to_page that returns has issued exactly as many
\* store append calls as the block tree has nodes, one when the root has no
\* children or an empty children list.
C6_CallCount ==
    outcome = "returned" => Len(append_calls) = NodeCount(block)

\* C6's case: a tree with a grandchild and a leaf carrying an empty children
\* list has been persisted.
C6_Witness ==
    /\ outcome = "returned"
    /\ HasGrandchild(block)
    /\ \E b \in SubBlocks(block) : "children" \in DOMAIN b /\ b["children"] = <<>>
    /\ Len(append_calls) >= 4

\* C7: after append_block_to_page returns, the subtree the store holds under
\* the node made for the root is the input tree: as many nodes, the same
\* children in the same order at every level, the same nesting; and the
\* store made no other node.
C7_RoundTrip ==
    outcome = "returned" =>
      /\ ReadBack(append_results[1]) = Shape(block)
      /\ Cardinality(DOMAIN store_content) = NodeCount(block)
      /\ \E j \in DOMAIN store_children[page_id] :
            store_children[page_id][j] = append_results[1]

\* C7's case: a persisted tree in which a node with two children is followed
\* by a sibling, so a misplaced child would show.
C7_Witness ==
    /\ outcome = "returned"
    /\ Len(KidsOfBlock(block)) >= 2
    /\ Len(KidsOfBlock(KidsOfBlock(block)[1])) >= 2
    /\ Len(store_children[append_results[1]]) >= 2

\* C8 as claimed: the top call returns the id the store gave the node made
\* for the top block.
C8_ReturnsRootId ==
    outcome = "returned" => retval = append_results[1]

\* C8, amended: the top call returns None; the id the store gave the node
\* made for the top block is the container of the calls for its children and
\* goes nowhere else.
C8_ReturnsNone ==
    outcome = "returned" =>
      /\ retval = None
      /\ store_content[append_results[1]] = Bare(block)
      /\ \A k \in DOMAIN append_calls :
           (\E i \in DOMAIN KidsOfBlock(block) : Sent(k) = Bare(KidsOfBlock(block)[i]))
             => append_calls[k].page_id = append_results[1]

\* C8's case: a call on a block with children has returned.
C8_Witness ==
    /\ outcome = "returned"
    /\ KidsOfBlock(block) # <<>>
    /\ append_results[1] = NewId(1)

\* The call that carried the parent of the block that call k carries.
ParentCall(k) ==
    CHOOSE j \in DOMAIN append_calls :
      \E q \in SubBlocks(block) :
        /\ Bare(q) = Sent(j)
        /\ \E i \in DOMAIN KidsOfBlock(q) : Bare(KidsOfBlock(q)[i]) = Sent(k)

\* C9: every append call for a block other than the root names as container
\* the id the store returned for the call of that block's parent and has no
\* "after"; the first call names the page and has "after" exactly when the
\* caller gave one, with the caller's value.
C9_ContainerAndAnchor ==
    \A k \in DOMAIN append_calls :
      IF k = 1
      THEN /\ append_calls[k].page_id = page_id
           /\ "after" \in DOMAIN append_calls[k].kwargs <=> after # None
           /\ after # None => append_calls[k].kwargs["after"] = after
      ELSE /\ "after" \notin DOMAIN append_calls[k].kwargs
           /\ ParentCall(k) < k
           /\ ParentCall(k) <= Len(append_results)
           /\ append_calls[k].page_id = append_results[ParentCall(k)]

\* C9's case: the caller gave an anchor and the call for a grandchild has
\* been issued.
C9_Witness ==
    /\ after = AnchorId
    /\ \E k \in DOMAIN append_calls :
         /\ k > 1
         /\ ParentCall(k) > 1

\* C10: the append calls issued so far are a prefix of the pre-order,
\* depth-first, left-to-right walk of the input tree, the whole of it when
\* the call has returned; at most one call is unanswered at any time, and a
\* call is issued only when every earlier one has been answered.
C10_PreorderSequential ==
    /\ Len(append_calls) <= NodeCount(block)
    /\ \A k \in DOMAIN append_calls : Sent(k) = Preorder(block)[k]
    /\ outcome = "returned" => Len(append_calls) = Len(Preorder(block))
    /\ inflight \in {0, 1}
    /\ Len(append_calls) = Len(append_results) + inflight
         \/ outcome = "raised"

\* C10's case: a returned call on a tree whose pre-order differs from its
\* level order (a grandchild comes before a later child of the root).
C10_Witness ==
    /\ outcome = "returned"
    /\ Len(KidsOfBlock(block)) >= 2
    /\ KidsOfBlock(KidsOfBlock(block)[1]) # <<>>
    /\ Len(append_calls) >= 4

\* C11: when a store append call fails the persist ends with the error at
\* once: no call of append_block_to_page stays active, the failed call is the
\* last append call ever issued, and from then on the store keeps exactly the
\* nodes it had (nothing is deleted, moved or rewritten).
C11_FailureAbortsAtOnce ==
    /\ [](outcome = "raised" =>
            /\ stack = <<>>
            /\ inflight = 0
            /\ Len(append_calls) = Len(append_results) + 1)
    /\ [][outcome = "raised" =>
            /\ outcome' = "raised"
            /\ append_calls' = append_calls
            /\ append_results' = append_results
            /\ store_children' = store_children
            /\ store_content' = store_content]_vars

\* A persist that failed after it created two nodes or more, with blocks of
\* the tree still unsent; the created nodes are still in the store.
C11_Witness ==
    /\ outcome = "raised"
    /\ Len(append_results) >= 2
    /\ Len(append_calls) < NodeCount(block)
    /\ \A k \in 1..Len(append_results) :
          append_results[k] \in DOMAIN store_content

\* C28: every append call of append_block_to_page carries a batch of exactly
\* one block, and that block is a node of the input tree without its
\* "children" key, every other key unchanged (the k-th call carries the k-th
\* node in pre-order); the block of the caller, and the block of every call
\* in progress, is never modified.
C28_SingleBareBlockPerCall ==
    /\ [](/\ \A k \in DOMAIN append_calls :
               /\ Len(append_calls[k].kwargs["children"]) = 1
               /\ "children" \notin DOMAIN Sent(k)
               /\ k <= Len(Preorder(block))
               /\ Sent(k) = Preorder(block)[k]
               /\ \E b \in SubBlocks(block) :
                     /\ DOMAIN Sent(k) = DOMAIN b \ {"children"}
                     /\ \A key \in DOMAIN Sent(k) : Sent(k)[key] = b[key]
          /\ \A d \in DOMAIN stack : stack[d].block \in SubBlocks(block))
    /\ [][/\ block' = block
          /\ \A d \in DOMAIN stack :
                d \in DOMAIN stack' => stack'[d].block = stack[d].block]_vars

\* A call returned for a block whose child has a child of its own: three
\* or more append calls were made, the first for the block itself, which
\* still holds its children.
C28_Witness ==
    /\ outcome = "returned"
    /\ Len(append_calls) >= 3
    /\ "children" \in DOMAIN block
    /\ \E i \in DOMAIN block["children"] :
          "children" \in DOMAIN block["children"][i]
    /\ DOMAIN Sent(1) = DOMAIN block \ {"children"}

(***************************************************************************)
(* startpage.py: main, and the collaborators it gathers.                   *)
(*                                                                         *)
(* A block is a dict with the keys "type" and "text"; the text is the pair *)
(* of the section it belongs to and its place there.  What an upstream     *)
(* service answers is "ok" or "error".                                     *)
(***************************************************************************)

\* Calendars of the iCloud account.
MaxCalendars == 2
\* Articles fetch_feed selected.
MaxNewsItems == 2

\* startpage.py:111-120  the position of every coroutine in tasks.
WeatherTask == 1
CurrenciesTask == 2
CryptoTask == 3
CalendarTask == 4
NewsTask == 5
FactTask == 6
Tasks == WeatherTask..FactTask

\* calendar.py:57-118, rss.py:147-209  the coroutines that hold no await:
\* once started they run to their end.
SyncTasks == {CalendarTask, NewsTask}

\* The setting names main reads.
RequiredSettings ==
    {"CITY", "PAGE_ID", "BLOCK_ID", "ICLOUD_USERNAME", "ICLOUD_APP_PASSWORD"}

\* os.environ.get(name): None when the name is not set.
EnvironGet(env, name) == IF name \in DOMAIN env THEN env[name] ELSE None

\* not value, for a value that is None or a string; "" is <<>>.
Falsy(value) == value = None \/ value = <<>>

\* ConfigMissing that forgets BLOCK_ID.
ConfigMissing_NoBlockId(env) ==
    \/ Falsy(EnvironGet(env, "CITY")) \/ Falsy(EnvironGet(env, "PAGE_ID"))
    \/ Falsy(EnvironGet(env, "ICLOUD_USERNAME"))
    \/ Falsy(EnvironGet(env, "ICLOUD_APP_PASSWORD"))

\* startpage.py:58-64  the two checks that raise ValueError.
ConfigMissing(env) ==
    \/ Falsy(EnvironGet(env, "CITY")) \/ Falsy(EnvironGet(env, "PAGE_ID"))
    \/ Falsy(EnvironGet(env, "BLOCK_ID"))
    \/ Falsy(EnvironGet(env, "ICLOUD_USERNAME"))
    \/ Falsy(EnvironGet(env, "ICLOUD_APP_PASSWORD"))

Heading2(section) == [type |-> "heading_2", text |-> <<section, 0>>]
Paragraph(section) == [type |-> "paragraph", text |-> <<section, 1>>]
ListItem(section, k) == [type |-> "bulleted_list_item", text |-> <<section, k>>]

\* calendar.py:88-98  the item "No events today."
NoEventsItem == [type |-> "bulleted_list_item", text |-> <<"no events", 0>>]

\* How a coroutine ends: with an exception or with a value.
Raise == [raised |-> TRUE, value |-> <<>>, py |-> "none"]
Return(value) == [raised |-> FALSE, value |-> value, py |-> "list"]
ReturnStr(text) == [raised |-> FALSE, value |-> text, py |-> "str"]

\* weather.py:108-191  errors of the two requests are raised again.
get_weather(response) ==
    IF response = "error" THEN Raise
    ELSE Return(<<Heading2("weather"), Paragraph("weather")>>)

\* currency.py:10-62  a heading and one item per target currency.
get_currency_rates(text, response) ==
    IF response = "error" THEN Raise
    ELSE Return(<<Heading2(text), ListItem(text, 1), ListItem(text, 2)>>)

\* calendar.py:68-77  the events of the calendars from c on; a search that
\* raises is caught and adds nothing.
RECURSIVE AllEvents(_, _)
AllEvents(searches, c) ==
    IF c > Len(searches) THEN <<>>
    ELSE (IF searches[c].failed THEN <<>>
          ELSE [k \in 1..searches[c].events |-> ListItem("calendar", c)])
         \o AllEvents(searches, c + 1)

\* calendar.py:60, 70-77  only fetch_icloud_calendars can raise.
CalendarRaises(connect, searches) == connect = "error"

\* get_icloud_calendar_events without the branch for an empty all_events.
get_icloud_calendar_events_HeadingOnly(connect, searches) ==
    IF CalendarRaises(connect, searches) THEN Raise
    ELSE Return(<<Heading2("calendar")>> \o AllEvents(searches, 1))

\* calendar.py:57-118
get_icloud_calendar_events(connect, searches) ==
    IF CalendarRaises(connect, searches) THEN Raise
    ELSE LET all_events == AllEvents(searches, 1)
         IN  IF all_events = <<>>
             THEN Return(<<Heading2("calendar"), NoEventsItem>>)
             ELSE Return(<<Heading2("calendar")>> \o all_events)

\* fetch_feed that leaves the heading out.
fetch_feed_NoHeading(response, n) ==
    IF response = "error" THEN Raise
    ELSE Return([k \in 1..n |-> ListItem("news", k)])

\* rss.py:147-209  a heading and one item per selected article.
fetch_feed(response, n) ==
    IF response = "error" THEN Raise
    ELSE Return(<<Heading2("news")>> \o [k \in 1..n |-> ListItem("news", k)])

\* str.strip(): the text without the blanks at its two ends.
RECURSIVE Strip(_)
Strip(text) ==
    IF text = <<>> THEN <<>>
    ELSE IF Head(text) = " " THEN Strip(Tail(text))
    ELSE IF text[Len(text)] = " " THEN Strip(SubSeq(text, 1, Len(text) - 1))
    ELSE text

\* The texts the fact service can answer with.
FactTexts == {<<"f">>, <<"g", " ">>}

\* fact.py:9-28  the stripped text of the fact, not a block.
get_random_fact(response, text) ==
    IF response = "error" THEN Raise ELSE ReturnStr(Strip(text))

\* What the calendars of the account can answer to a search.
SearchAnswers ==
    {[failed |-> TRUE, events |-> 0]} \cup [failed : {FALSE}, events : 0..1]
SearchLists == UNION { [1..n -> SearchAnswers] : n \in 1..MaxCalendars }

\* The outcomes a task can have: how its coroutine ends, and whether a call
\* to its upstream failed on the way.
TaskOutcomes(i) ==
    CASE i = WeatherTask ->
           { [end |-> get_weather(r), upstream |-> r = "error",
              answers |-> <<>>] : r \in {"ok", "error"} }
      [] i = CurrenciesTask ->
           { [end |-> get_currency_rates("currencies", r),
              upstream |-> r = "error", answers |-> <<>>] :
               r \in {"ok", "error"} }
      [] i = CryptoTask ->
           { [end |-> get_currency_rates("cryptocurrencies", r),
              upstream |-> r = "error", answers |-> <<>>] :
               r \in {"ok", "error"} }
      [] i = CalendarTask ->
           { [end |-> get_icloud_calendar_events("error", <<>>),
              upstream |-> TRUE, answers |-> <<>>] }
           \cup
           { [end |-> get_icloud_calendar_events("ok", searches),
              upstream |-> \E c \in DOMAIN searches : searches[c].failed,
              answers |-> searches] : searches \in SearchLists }
      [] i = NewsTask ->
           { [end |-> fetch_feed("error", 0), upstream |-> TRUE,
              answers |-> <<>>] }
           \cup
           { [end |-> fetch_feed("ok", n), upstream |-> FALSE,
              answers |-> <<>>] : n \in 0..MaxNewsItems }
      [] i = FactTask ->
           { [end |-> get_random_fact("error", <<>>), upstream |-> TRUE,
              answers |-> <<>>] }
           \cup
           { [end |-> get_random_fact("ok", text), upstream |-> FALSE,
              answers |-> <<>>] : text \in FactTexts }

\* FirstException that keeps the exception of the last task that failed.
FirstException_Last(exc, raised, i) == IF raised THEN <<"task", i>> ELSE exc

\* startpage.py:123  asyncio.gather(*tasks), return_exceptions left False:
\* the first exception of a task is the one its awaiter gets.
FirstException(exc, raised, i) ==
    IF raised /\ exc = None THEN <<"task", i>> ELSE exc

\* GatherReady of a wait that ends with the first task that returned.
GatherReady_FirstCompleted(ts) == \E i \in Tasks : ts[i] = "done"

\* startpage.py:123  the await of asyncio.gather returns when every task
\* has returned.
GatherReady(ts) == \A i \in Tasks : ts[i] = "done"

\* Children that takes the sections in the order the tasks completed.
RECURSIVE ConcatResults(_, _)
ConcatResults(res, order) ==
    IF order = <<>> THEN <<>>
    ELSE res[Head(order)] \o ConcatResults(res, Tail(order))

Children_CompletionOrder(res, done_order) ==
    ConcatResults(res, SelectSeq(done_order, LAMBDA i : i # FactTask))

\* startpage.py:123-134  results holds the return values in the order of
\* tasks; children is the concatenation of the first five.
Children(res, done_order) ==
    res[WeatherTask] \o res[CurrenciesTask] \o res[CryptoTask]
        \o res[CalendarTask] \o res[NewsTask]

\* create_header_1_block that nests the blocks that follow the first one
\* under the first one.
create_header_1_block_Nested(text, children) ==
    IF children = <<>> THEN [type |-> "heading_1", text |-> text]
    ELSE IF Len(children) = 1
    THEN [type |-> "heading_1", text |-> text, children |-> children]
    ELSE [type |-> "heading_1", text |-> text,
          children |->
             << [k \in DOMAIN children[1] \cup {"children"} |->
                   IF k = "children" THEN Tail(children)
                   ELSE children[1][k]] >>]

\* blocks.py:38-59
create_header_1_block(text, children) ==
    IF children # <<>>
    THEN [type |-> "heading_1", text |-> text, children |-> children]
    ELSE [type |-> "heading_1", text |-> text]

\* MainAfter of a call that leaves the anchor out.
MainAfter_None(block_id) == None

\* startpage.py:138  after=block_id
MainAfter(block_id) == block_id

\* UpdateReady of a main that goes on to the update however the persist ended.
UpdateReady_Always(how) == how \in {"returned", "raised"}

\* startpage.py:138-141  the update call follows the await of
\* append_block_to_page: it is reached when that call returned.
UpdateReady(how) == how = "returned"

(***************************************************************************)
(* startpage.py: main, step by step                                        *)
(***************************************************************************)

\* startpage.py:54  os.environ["NOTION_TOKEN"] of an environment without it.
MainKeyError ==
    /\ pcM = "start"
    /\ "NOTION_TOKEN" \notin DOMAIN environ
    /\ pcM' = "raised"
    /\ main_error' = <<"KeyError">>
    /\ UNCHANGED <<cal_answers, result_py, lambda_outcome>>
    /\ UNCHANGED <<environ, task_state, results, upstream_failed, finished,
                   gather_exc, update_calls>>
    /\ UNCHANGED varsF
    /\ UNCHANGED varsP

\* startpage.py:55-64
MainValueError ==
    /\ pcM = "start"
    /\ "NOTION_TOKEN" \in DOMAIN environ
    /\ ConfigMissing(environ)
    /\ pcM' = "raised"
    /\ main_error' = <<"ValueError">>
    /\ UNCHANGED <<cal_answers, result_py, lambda_outcome>>
    /\ UNCHANGED <<environ, task_state, results, upstream_failed, finished,
                   gather_exc, update_calls>>
    /\ UNCHANGED varsF
    /\ UNCHANGED varsP

\* startpage.py:66-123  the coroutines are made and handed to asyncio.gather,
\* which schedules one task for each; main is suspended.
MainGather ==
    /\ pcM = "start"
    /\ "NOTION_TOKEN" \in DOMAIN environ
    /\ ~ConfigMissing(environ)
    /\ pcM' = "gather"
    /\ task_state' = [i \in Tasks |-> "pending"]
    /\ UNCHANGED <<cal_answers, result_py, lambda_outcome>>
    /\ UNCHANGED <<environ, main_error, results, upstream_failed, finished,
                   gather_exc, update_calls>>
    /\ UNCHANGED varsF
    /\ UNCHANGED varsP

\* The bookkeeping of a task that ends: asyncio.gather keeps the result at
\* the task's position and, with return_exceptions left False, hands the
\* first exception to its awaiter.
EndTask(i, out) ==
    /\ task_state' =
         [task_state EXCEPT ![i] = IF out.end.raised THEN "failed" ELSE "done"]
    /\ results' = [results EXCEPT ![i] = out.end.value]
    /\ upstream_failed' = [upstream_failed EXCEPT ![i] = out.upstream]
    /\ finished' = Append(finished, i)
    /\ gather_exc' = FirstException(gather_exc, out.end.raised, i)
    /\ cal_answers' = IF i = CalendarTask THEN out.answers ELSE cal_answers
    /\ result_py' = [result_py EXCEPT ![i] = out.end.py]

\* The event loop runs the tasks first come, first served: a task with an
\* await in it runs up to its first request and is suspended there.
StartTask(i) ==
    /\ pcM = "gather"
    /\ i \notin SyncTasks
    /\ task_state[i] = "pending"
    /\ \A j \in Tasks : j < i => task_state[j] # "pending"
    /\ task_state' = [task_state EXCEPT ![i] = "running"]
    /\ UNCHANGED <<cal_answers, result_py, lambda_outcome>>
    /\ UNCHANGED <<environ, pcM, main_error, results, upstream_failed,
                   finished, gather_exc, update_calls>>
    /\ UNCHANGED varsF
    /\ UNCHANGED varsP

\* calendar.py:57-118, rss.py:147-209  a task without an await runs to its
\* end in its first turn.
RunSyncTask(i) ==
    /\ pcM = "gather"
    /\ i \in SyncTasks
    /\ task_state[i] = "pending"
    /\ \A j \in Tasks : j < i => task_state[j] # "pending"
    /\ \E out \in TaskOutcomes(i) : EndTask(i, out)
    /\ UNCHANGED <<environ, pcM, main_error, update_calls, lambda_outcome>>
    /\ UNCHANGED varsF
    /\ UNCHANGED varsP

\* weather.py:108-191, currency.py:10-62, fact.py:9-28  the answer of the
\* upstream arrives; answers are looked for once every task had its first
\* turn.
CompleteTask(i) ==
    /\ pcM = "gather"
    /\ task_state[i] = "running"
    /\ \A j \in Tasks : task_state[j] # "pending"
    /\ \E out \in TaskOutcomes(i) : EndTask(i, out)
    /\ UNCHANGED <<environ, pcM, main_error, update_calls, lambda_outcome>>
    /\ UNCHANGED varsF
    /\ UNCHANGED varsP

\* startpage.py:123  the await of asyncio.gather raises the first exception
\* of a task; main has no try, and asyncio.run (run.py:5) cancels the tasks
\* that are still running.
GatherRaise ==
    /\ pcM = "gather"
    /\ gather_exc # None
    /\ \A j \in Tasks : task_state[j] # "pending"
    /\ pcM' = "raised"
    /\ main_error' = gather_exc
    /\ task_state' = [i \in Tasks |-> IF task_state[i] = "running"
                                      THEN "cancelled" ELSE task_state[i]]
    /\ UNCHANGED <<cal_answers, result_py, lambda_outcome>>
    /\ UNCHANGED <<environ, results, upstream_failed, finished, gather_exc,
                   update_calls>>
    /\ UNCHANGED varsF
    /\ UNCHANGED varsP

\* startpage.py:123-138  every task returned: main builds the day section
\* and calls append_block_to_page.
GatherReturn ==
    /\ pcM = "gather"
    /\ GatherReady(task_state)
    /\ LET children == Children(results, finished)
           new_day == create_header_1_block(<<"date", 0>>, children)
           block_id == EnvironGet(environ, "BLOCK_ID")
       IN  /\ page_id' = EnvironGet(environ, "PAGE_ID")
           /\ block' = new_day
           /\ after' = MainAfter(block_id)
           /\ stack' = <<NewFrame(page_id', block', after')>>
    /\ outcome' = "running"
    /\ pcM' = "append"
    /\ UNCHANGED <<inflight, append_calls, append_results, store_children,
                   store_content, next_id, retval>>
    /\ UNCHANGED <<cal_answers, result_py, lambda_outcome>>
    /\ UNCHANGED <<environ, main_error, task_state, results, upstream_failed,
                   finished, gather_exc, update_calls>>
    /\ UNCHANGED varsF

\* startpage.py:138  append_block_to_page raised; main has no try.
AppendRaised ==
    /\ pcM = "append"
    /\ outcome = "raised"
    /\ pcM' = "raised"
    /\ main_error' = <<"store">>
    /\ UNCHANGED <<cal_answers, result_py, lambda_outcome>>
    /\ UNCHANGED <<environ, task_state, results, upstream_failed, finished,
                   gather_exc, update_calls>>
    /\ UNCHANGED varsF
    /\ UNCHANGED varsP

\* startpage.py:141-143  the update request is sent.
IssueUpdate ==
    /\ pcM = "append"
    /\ UpdateReady(outcome)
    /\ update_calls' =
         Append(update_calls,
                [block_id |-> EnvironGet(environ, "BLOCK_ID"),
                 content  |-> results[FactTask]])
    /\ pcM' = "update"
    /\ UNCHANGED <<cal_answers, result_py, lambda_outcome>>
    /\ UNCHANGED <<environ, main_error, task_state, results, upstream_failed,
                   finished, gather_exc>>
    /\ UNCHANGED varsF
    /\ UNCHANGED varsP

\* startpage.py:141-145  the store rewrites the node and main returns.
UpdateOk ==
    /\ pcM = "update"
    /\ LET call == update_calls[Len(update_calls)]
       IN  store_content' =
             [c \in DOMAIN store_content \cup {call.block_id} |->
                IF c = call.block_id
                THEN [type |-> "callout", text |-> call.content]
                ELSE store_content[c]]
    /\ pcM' = "returned"
    /\ UNCHANGED <<page_id, block, after, stack, inflight, append_calls,
                   append_results, store_children, next_id, outcome, retval>>
    /\ UNCHANGED <<cal_answers, result_py, lambda_outcome>>
    /\ UNCHANGED <<environ, main_error, task_state, results, upstream_failed,
                   finished, gather_exc, update_calls>>
    /\ UNCHANGED varsF

\* startpage.py:141  the update call raises; main has no try.
UpdateFail ==
    /\ pcM = "update"
    /\ pcM' = "raised"
    /\ main_error' = <<"store">>
    /\ UNCHANGED <<cal_answers, result_py, lambda_outcome>>
    /\ UNCHANGED <<environ, task_state, results, upstream_failed, finished,
                   gather_exc, update_calls>>
    /\ UNCHANGED varsF
    /\ UNCHANGED varsP

\* lambda_handler.py:28-43  asyncio.run(main()) stands in a try whose except
\* Exception clause returns a response: a main that raised gives the
\* response with statusCode 500, a main that returned the one with 200.
lambda_handler(main_end) ==
    IF main_end = "returned"
    THEN [state |-> "returned", statusCode |-> 200]
    ELSE [state |-> "returned", statusCode |-> 500]

\* lambda_handler.py:31-37  main returned.
LambdaReturn ==
    /\ pcM = "returned"
    /\ lambda_outcome.state = "running"
    /\ lambda_outcome' = lambda_handler(pcM)
    /\ UNCHANGED <<environ, pcM, main_error, task_state, results,
                   upstream_failed, finished, gather_exc, update_calls,
                   cal_answers, result_py>>
    /\ UNCHANGED varsF
    /\ UNCHANGED varsP

\* lambda_handler.py:38-43  main raised and the except clause caught it.
LambdaExcept ==
    /\ pcM = "raised"
    /\ lambda_outcome.state = "running"
    /\ lambda_outcome' = lambda_handler(pcM)
    /\ UNCHANGED <<environ, pcM, main_error, task_state, results,
                   upstream_failed, finished, gather_exc, update_calls,
                   cal_answers, result_py>>
    /\ UNCHANGED varsF
    /\ UNCHANGED varsP

\* The value a setting has when it is set and not empty.
EnvValue(name) ==
    CASE name = "PAGE_ID" -> PageId
      [] name = "BLOCK_ID" -> AnchorId
      [] OTHER -> <<name>>

\* The environments: any setting may be absent, and any setting but the
\* token may be the empty string.
Environs ==
    { [name \in present |-> IF name \in empty THEN <<>> ELSE EnvValue(name)] :
        present \in SUBSET (RequiredSettings \cup {"NOTION_TOKEN"}),
        empty \in SUBSET RequiredSettings }

\* main is about to run; the page holds the anchor block and one block
\* after it.
InitMain ==
    /\ environ \in Environs
    /\ pcM = "start"
    /\ main_error = None
    /\ task_state = [i \in Tasks |-> "none"]
    /\ results = [i \in Tasks |-> <<>>]
    /\ upstream_failed = [i \in Tasks |-> FALSE]
    /\ finished = <<>>
    /\ gather_exc = None
    /\ update_calls = <<>>
    /\ cal_answers = <<>>
    /\ result_py = [i \in Tasks |-> "none"]
    /\ lambda_outcome = [state |-> "running", statusCode |-> 0]
    /\ page_id = None
    /\ block = None
    /\ after = None
    /\ stack = <<>>
    /\ inflight = 0
    /\ append_calls = <<>>
    /\ append_results = <<>>
    /\ store_children = [c \in {PageId} |-> <<AnchorId, TailId>>]
    /\ store_content = <<>>
    /\ next_id = 0
    /\ outcome = "idle"
    /\ retval = None
    /\ IdleFeed

NextMain ==
    \/ MainKeyError \/ MainValueError \/ MainGather
    \/ \E i \in Tasks : StartTask(i) \/ RunSyncTask(i) \/ CompleteTask(i)
    \/ GatherRaise \/ GatherReturn
    \/ IssueAppend \/ StoreAppendOk \/ StoreAppendFail \/ RecurseChild
    \/ ReturnCall
    \/ AppendRaised \/ IssueUpdate \/ UpdateOk \/ UpdateFail
    \/ LambdaReturn \/ LambdaExcept

SpecMain == InitMain /\ [][NextMain]_vars

(***************************************************************************)
(* Properties of main                                                      *)
(***************************************************************************)

\* The tasks that failed.
FailedTasks == { i \in Tasks : task_state[i] = "failed" }

\* No request was sent to the store and the store is as main found it.
NoStoreCall ==
    /\ append_calls = <<>>
    /\ update_calls = <<>>
    /\ store_children = [c \in {PageId} |-> <<AnchorId, TailId>>]
    /\ store_content = <<>>

\* C12: once one of the six tasks has failed main never gets past the gather:
\* when main ends it has raised the error of the task that failed first, and
\* no append call and no update call is ever issued.
C12_TaskFailureFailsMain ==
    FailedTasks # {} =>
        /\ pcM \in {"gather", "raised"}
        /\ NoStoreCall
        /\ pcM = "raised" =>
             \E k \in DOMAIN finished :
                /\ main_error = <<"task", finished[k]>>
                /\ finished[k] \in FailedTasks
                /\ \A j \in 1..(k - 1) : finished[j] \notin FailedTasks

\* main has raised the error of a failed task after another task had failed
\* too and a third had returned its blocks.
C12_Witness ==
    /\ pcM = "raised"
    /\ Cardinality(FailedTasks) >= 2
    /\ \E i \in FailedTasks : main_error = <<"task", i>>
    /\ \E i \in Tasks : task_state[i] = "done"

\* The sections in the order of the task list.
SectionsInTaskOrder ==
    results[WeatherTask] \o results[CurrenciesTask] \o results[CryptoTask]
        \o results[CalendarTask] \o results[NewsTask]

\* C13: in whatever order the tasks completed, the children of the day
\* heading handed to the persister are the results of weather, currencies,
\* cryptocurrencies, calendar and news in that order, and a finished run
\* leaves them in that order under the new node of the store.
C13_FixedSectionOrder ==
    /\ pcM \in {"append", "update", "returned"} =>
         /\ block["type"] = "heading_1"
         /\ KidsOfBlock(block) = SectionsInTaskOrder
    /\ pcM = "returned" =>
         LET kids == store_children[append_results[1]]
         IN  [i \in DOMAIN kids |-> store_content[kids[i]]]
                = SectionsInTaskOrder

\* A finished run in which the fact came back first and the weather last.
C13_Witness ==
    /\ pcM = "returned"
    /\ finished = <<CalendarTask, NewsTask, FactTask, CryptoTask,
                    CurrenciesTask, WeatherTask>>

\* The gather was begun and main is no longer suspended in it.
PastGather == pcM # "gather" /\ \A i \in Tasks : task_state[i] # "none"

\* C14 as stated: no store call before all six tasks have completed, and main
\* stays suspended in the gather until the last task has finished.
C14_SuspendedUntilLastFinishes ==
    /\ (append_calls # <<>> \/ update_calls # <<>>) =>
          \A i \in Tasks : task_state[i] \in {"done", "failed"}
    /\ PastGather => \A i \in Tasks : task_state[i] \in {"done", "failed"}

\* C14: no store call is issued before all six tasks have returned; main
\* stays suspended in the gather until the last task has returned or until a
\* task has failed, in which case it leaves the gather with tasks unfinished.
C14_NoStoreCallBeforeAllDone ==
    /\ (append_calls # <<>> \/ update_calls # <<>>) =>
          \A i \in Tasks : task_state[i] = "done"
    /\ PastGather =>
          \/ \A i \in Tasks : task_state[i] = "done"
          \/ pcM = "raised" /\ FailedTasks # {}

\* The first append call is out, every task has returned, and the weather
\* was the last to do so.
C14_Witness ==
    /\ Len(append_calls) = 1
    /\ \A i \in Tasks : task_state[i] = "done"
    /\ finished[Len(finished)] = WeatherTask

\* A required setting is absent or empty.
SettingAbsentOrEmpty ==
    \E name \in RequiredSettings :
       name \notin DOMAIN environ \/ environ[name] = <<>>

\* No task was made.
NoTaskStarted == \A i \in Tasks : task_state[i] = "none"

SectionAppended ==
    /\ outcome = "returned"
    /\ Len(append_results) = NodeCount(block)
    /\ store_children[PageId] = <<AnchorId, append_results[1], TailId>>
    /\ ReadBack(append_results[1]) = Shape(block)

\* The fact node holds the fact main fetched.
FactUpdated ==
    /\ AnchorId \in DOMAIN store_content
    /\ store_content[AnchorId] =
         [type |-> "callout", text |-> results[FactTask]]

\* C16: a run that returns normally has appended the complete day section
\* and updated the fact node, and no source of it is missing data: no task
\* of that run had an upstream call fail.
C16_AllOrNothing ==
    pcM = "returned" =>
        /\ SectionAppended
        /\ FactUpdated
        /\ \A i \in Tasks : ~upstream_failed[i]

\* C17: a task in which an upstream call failed has failed; none ends with a
\* normal result.
C17_UpstreamFailureFailsTask ==
    \A i \in Tasks :
       (upstream_failed[i] /\ task_state[i] \notin {"pending", "running"})
          => task_state[i] = "failed"

\* The append calls whose container is the configured page.
PageCalls == { k \in DOMAIN append_calls : append_calls[k].page_id = PageId }

\* C18: a run that returned has issued exactly one append call on the
\* configured page; it carries the day heading_1 block and after = BLOCK_ID,
\* and the page has exactly one new child, right after the anchor.
C18_OneSectionAfterAnchor ==
    pcM = "returned" =>
        /\ environ["PAGE_ID"] = PageId
        /\ PageCalls = {1}
        /\ append_calls[1].kwargs["children"] = <<Bare(block)>>
        /\ Bare(block)["type"] = "heading_1"
        /\ "after" \in DOMAIN append_calls[1].kwargs
        /\ append_calls[1].kwargs["after"] = environ["BLOCK_ID"]
        /\ store_children[PageId] = <<AnchorId, append_results[1], TailId>>

\* A finished run whose section has the heading and at least twelve blocks
\* under it.
C18_Witness ==
    /\ pcM = "returned"
    /\ Len(append_calls) >= 13
    /\ \A k \in 2..Len(append_calls) : append_calls[k].page_id # PageId

\* C19: a run that returned has called update exactly once, on BLOCK_ID with
\* the fact the fact task returned; an update call is issued only when every
\* append call of the section has been answered and append_block_to_page has
\* returned; when the persist failed there is no update call.
C19_UpdateOnceAfterAppend ==
    /\ pcM = "returned" =>
         /\ Len(update_calls) = 1
         /\ update_calls[1] = [block_id |-> environ["BLOCK_ID"],
                               content  |-> results[FactTask]]
    /\ update_calls # <<>> =>
         /\ Len(update_calls) = 1
         /\ outcome = "returned"
         /\ stack = <<>>
         /\ inflight = 0
         /\ Len(append_calls) = NodeCount(block)
         /\ Len(append_results) = Len(append_calls)
    /\ outcome = "raised" => update_calls = <<>>

\* A finished run whose update carried the fact "g", stripped of its blank.
C19_Witness ==
    /\ pcM = "returned"
    /\ update_calls = <<[block_id |-> AnchorId, content |-> <<"g">>]>>
    /\ FactUpdated

\* No calendar of the run yielded an event: every search failed or found
\* nothing.
NoCalendarEvent ==
    \A c \in DOMAIN cal_answers :
       cal_answers[c].failed \/ cal_answers[c].events = 0

\* C21: when get_icloud_calendar_events returns and no calendar yielded an
\* event, it returns exactly two blocks: the heading_2 of the section and
\* the list item "No events today."
C21_NoEventsTwoBlocks ==
    (task_state[CalendarTask] = "done" /\ NoCalendarEvent) =>
        /\ Len(results[CalendarTask]) = 2
        /\ results[CalendarTask][1]["type"] = "heading_2"
        /\ results[CalendarTask][2]["type"] = "bulleted_list_item"
        /\ results[CalendarTask][2]["text"] = <<"no events", 0>>

\* The calendar task returned after two calendars were searched and neither
\* had an event today.
C21_Witness ==
    /\ task_state[CalendarTask] = "done"
    /\ Len(cal_answers) = 2
    /\ \A c \in DOMAIN cal_answers :
          ~cal_answers[c].failed /\ cal_answers[c].events = 0
    /\ Len(results[CalendarTask]) = 2

\* What task i returned is a section: a list of blocks, not empty, that
\* begins with a heading and goes on with list items or paragraphs only.
IsSection(i) ==
    /\ result_py[i] = "list"
    /\ Len(results[i]) >= 1
    /\ results[i][1]["type"] = "heading_2"
    /\ \A k \in 2..Len(results[i]) :
          results[i][k]["type"] \in {"bulleted_list_item", "paragraph"}

\* C22 as stated: every collaborator that returned, the fact among them,
\* returned a section.
C22_EveryCollaboratorYieldsSection ==
    \A i \in Tasks : task_state[i] = "done" => IsSection(i)

\* C22: weather, the two currency lookups, calendar and news return a
\* section whenever they return; the fact collaborator returns a string,
\* the text of the fact, and no block.
C22_BlockSourcesYieldSection ==
    /\ \A i \in Tasks \ {FactTask} : task_state[i] = "done" => IsSection(i)
    /\ task_state[FactTask] = "done" => result_py[FactTask] = "str"

\* Every task returned; the news section is its heading alone and the
\* calendar section holds two events.
C22_Witness ==
    /\ \A i \in Tasks : task_state[i] = "done"
    /\ Len(results[NewsTask]) = 1
    /\ Len(results[CalendarTask]) = 3
    /\ results[FactTask] = <<"f">>

\* C24: when main has raised, lambda_handler ends by raising to its invoker;
\* it does not return a response.
C24_HandlerRaisesWhenMainFails ==
    (pcM = "raised" /\ lambda_outcome.state # "running") =>
        lambda_outcome.state = "raised"

\* The number of blocks the five block-producing tasks returned.
BlocksReturned ==
    Len(results[WeatherTask]) + Len(results[CurrenciesTask])
        + Len(results[CryptoTask]) + Len(results[CalendarTask])
        + Len(results[NewsTask])

\* C29: in a run of main every append call after the first targets the
\* identifier returned for the day heading_1 block; the children of the day
\* heading carry no "children" key, so no node of the store lies under a
\* section heading or a list item: the persisted tree has depth two; a run
\* that returned has issued 1 + (number of blocks the five block-producing
\* tasks returned) append calls.
C29_PersistedTreeDepthTwo ==
    /\ \A k \in 2..Len(append_calls) :
          /\ append_results # <<>>
          /\ append_calls[k].page_id = append_results[1]
    /\ append_calls # <<>> =>
          /\ append_calls[1].page_id = environ["PAGE_ID"]
          /\ Sent(1)["type"] = "heading_1"
          /\ \A i \in DOMAIN KidsOfBlock(block) :
                KidsOfBlock(KidsOfBlock(block)[i]) = <<>>
    /\ \A k \in 2..Len(append_results) : store_children[append_results[k]] = <<>>
    /\ pcM = "returned" =>
          /\ Len(append_calls) = 1 + BlocksReturned
          /\ Len(store_children[append_results[1]]) = BlocksReturned

\* A run returned with blocks of every section under the day heading:
\* fourteen blocks or more, heading_2 blocks and list items side by side.
C29_Witness ==
    /\ pcM = "returned"
    /\ BlocksReturned >= 14
    /\ Len(append_calls) = 1 + BlocksReturned
    /\ \E j, k \in 2..Len(append_calls) :
          /\ Sent(j)["type"] = "heading_2"
          /\ Sent(k)["type"] = "bulleted_list_item"
          /\ append_calls[j].page_id = append_calls[k].page_id

(***************************************************************************)
(* The whole model: either component, from any of its inputs.              *)
(***************************************************************************)

Init == InitFeed \/ InitTags \/ InitRuns \/ InitPersist \/ InitMain

Next == NextRuns \/ NextPersist \/ NextMain

Spec == Init /\ [][Next]_vars

====
